---- MODULE Spec2Model ----
(***************************************************************************)
(* Promiventerator (src/src/index.ts): a Promise subclass that is also an  *)
(* event emitter and an AsyncIterable over its event history.              *)
(*                                                                         *)
(* The model keeps the fields of the class, the closure state of every     *)
(* iterator made by [Symbol.asyncIterator]() (queue, resolveNext), and the *)
(* outcome of every next() call.  A next() call that finds its queue empty *)
(* returns Promise.race([endPromise, inner]); the race is decided by the   *)
(* first of the two promises to be resolved (their reaction jobs run in    *)
(* resolution order), so the outcome of the call is written at the step    *)
(* that resolves the first of them and is never rewritten.                 *)
(***************************************************************************)
EXTENDS Integers, Sequences, FiniteSets, TLC

\* ---------------------------------------------------------------- bounds
MaxIter == 1        \* iterators created by [Symbol.asyncIterator]()
MaxEmit == 2        \* emit() calls
MaxNext == 3        \* next() calls per iterator
MaxListeners == 2   \* listener records created by on() and once()

\* ---------------------------------------------------------------- values
Undefined == "undefined"
ReferenceError == "ReferenceError"
\* what the executor resolves with, and what a consumer passes to return()
ResolveValues == {"done"}
CloseValues == {"manual"}
Errors == {"x"}
EventNames == {"progress", "complete"}
\* Listener functions.  f and g return at once; slow is an async function,
\* its promise settles in a later turn; bad throws; again calls emit() for
\* its own event the first time it runs.
Fns == {"f", "g"}
AsyncFns == {"slow"}
ThrowingFns == {"bad"}
EmittingFns == {"again"}
\* swap takes itself off its event and puts f on it: off(name, swap); on(name, f).
SwappingFns == {"swap"}
\* emit(eventName, data): the argument lists the event schema allows
EmitArgs == {<<"progress", 50>>, <<"complete">>}
Iters == 1..MaxIter
\* The iterators there is room for: one more, for a second iterator to stand
\* next to the ones that are pulled.
Slots == 1..(MaxIter + 1)

VARIABLES
  constructed,    \* the constructor has returned
  promiseState,   \* [[PromiseState]] of the object: pending, fulfilled, rejected
  promiseResult,  \* [[PromiseResult]] of the object
  isDone,         \* this.isDone
  value,          \* this.value
  endState,       \* endPromise: [resolved, value of the {value, done: true} it holds,
                  \*   by: "resolve" or "return", the caller of endResolver that resolved it]
  listeners,      \* this.listeners: event name -> [has: the Map has the key, set: its {fn, once} records in insertion order]
  iterators,      \* this.iterators: the registered iterator objects
  eventHistory,   \* this.eventHistory
  created,        \* iterator objects handed out so far
  returned,       \* iterators on which return() has been called
  queue,          \* per iterator: const queue
  resolveNext,    \* per iterator: let resolveNext (0 = null, k = resolver of the k-th next() call)
  nextCalls,      \* per iterator: the IteratorResult of each next() call, in call order
  registrations,  \* number of {fn, once} records created so far (the next record's identity)
  invocations,    \* calls made to listener functions, in call order:
                  \*   [fn, args, id, once: the record called, emit: the emit() call (index in the
                  \*    history) that made it, result: returned, pending, fulfilled, rejected, threw]
  emitCalls,      \* per emit() call, in call order: [name, atDispatch: the records in the
                  \*   Set of the name when the call started] (kept for the properties)
  stack           \* the emit() calls whose synchronous part is running, innermost last

vars == <<constructed, promiseState, promiseResult, isDone, value, endState,
          listeners, iterators, eventHistory, created, returned, queue,
          resolveNext, nextCalls, registrations, invocations, emitCalls, stack>>

futureVars == <<promiseState, promiseResult, isDone, value, endState>>
listenerVars == <<listeners, registrations, invocations, emitCalls, stack>>
iterVars == <<iterators, created, returned, queue, resolveNext, nextCalls>>

\* ---------------------------------------------------------------- helpers
\* An unsettled next() call, an event result and a terminal result.
PendingResult == [settled |-> FALSE, done |-> FALSE, value |-> <<>>, end |-> Undefined]
EventResult(ev) == [settled |-> TRUE, done |-> FALSE, value |-> ev, end |-> Undefined]
DoneResult(v) == [settled |-> TRUE, done |-> TRUE, value |-> <<>>, end |-> v]

\* emit(): eventData = data !== undefined ? [eventName, data] : [eventName]
EventData(args) == IF Len(args) = 2 THEN <<args[1], args[2]>> ELSE <<args[1]>>

\* endResolver(payload): resolving a promise twice has no effect.
EndResolver(es, v, caller) ==
  IF es.resolved THEN es ELSE [resolved |-> TRUE, value |-> v, by |-> caller]

\* Promise.race([endPromise, inner]) of every unsettled next() call is won by
\* endPromise when endPromise is resolved first.
RaceEnd(nc, v) ==
  [t \in Slots |-> [k \in DOMAIN nc[t] |->
      IF nc[t][k].settled THEN nc[t][k] ELSE DoneResult(v)]]

\* Resolving the inner promise of next() call k of iterator t with result r:
\* the race takes it unless endPromise has won already.
ResolveInner(nc, t, k, r) ==
  IF k = 0 \/ nc[t][k].settled THEN nc
  ELSE [nc EXCEPT ![t][k] = r]

Init ==
  /\ constructed = FALSE
  /\ promiseState = "pending"
  /\ promiseResult = Undefined
  /\ isDone = FALSE
  /\ value = Undefined
  /\ endState = [resolved |-> FALSE, value |-> Undefined, by |-> "none"]
  /\ listeners = [n \in EventNames |-> [has |-> FALSE, set |-> <<>>]]
  /\ iterators = {}
  /\ eventHistory = <<>>
  /\ created = {}
  /\ returned = {}
  /\ queue = [t \in Slots |-> <<>>]
  /\ resolveNext = [t \in Slots |-> 0]
  /\ nextCalls = [t \in Slots |-> <<>>]
  /\ registrations = 0
  /\ invocations = <<>>
  /\ emitCalls = <<>>
  /\ stack = <<>>

\* ---------------------------------------------------------------- the future
\* The resolve function handed to the executor (the arrow function wrapping
\* the Promise's own resolve), called once the constructor has returned.
Settle(v) ==
  /\ constructed
  /\ stack = <<>>
  /\ endState' = EndResolver(endState, v, "resolve")
  /\ nextCalls' = IF endState.resolved THEN nextCalls ELSE RaceEnd(nextCalls, v)
  /\ isDone' = TRUE
  /\ value' = v
  /\ promiseState' = IF promiseState = "pending" THEN "fulfilled" ELSE promiseState
  /\ promiseResult' = IF promiseState = "pending" THEN v ELSE promiseResult
  /\ UNCHANGED <<constructed, listenerVars, iterators, eventHistory, created,
                 returned, queue, resolveNext>>

\* The reject function handed to the executor: the Promise's own reject.
Fail(e) ==
  /\ constructed
  /\ stack = <<>>
  /\ promiseState' = IF promiseState = "pending" THEN "rejected" ELSE promiseState
  /\ promiseResult' = IF promiseState = "pending" THEN e ELSE promiseResult
  /\ UNCHANGED <<constructed, isDone, value, endState, listenerVars, iterVars,
                 eventHistory>>

\* What the executor does while the constructor is still running.
SyncExecutor == {<<"none">>} \cup {<<"resolve", v>> : v \in ResolveValues}
                \cup {<<"reject", e>> : e \in Errors}

\* new Promiventerator(executor).  The executor runs inside super(...); the
\* resolve wrapper reads `this`, which a derived constructor may not touch
\* before super() has returned: the read throws a ReferenceError, the Promise
\* constructor catches what the executor throws and rejects with it.  The field
\* initialisers (isDone = false, ...) run after super() has returned.
Constructor(exec) ==
  /\ ~constructed
  /\ constructed' = TRUE
  /\ promiseState' = IF exec[1] = "none" THEN "pending" ELSE "rejected"
  /\ promiseResult' = CASE exec[1] = "none" -> Undefined
                        [] exec[1] = "resolve" -> ReferenceError
                        [] exec[1] = "reject" -> exec[2]
  /\ isDone' = FALSE
  /\ value' = Undefined
  /\ endState' = [resolved |-> FALSE, value |-> Undefined, by |-> "none"]
  /\ UNCHANGED <<listenerVars, iterVars, eventHistory>>

\* ---------------------------------------------------------------- listeners
\* getListeners(eventName): the Set of the name, created when missing.
GetListeners(ls, name) == [ls EXCEPT ![name] = [has |-> TRUE, set |-> ls[name].set]]

\* if (listeners.size === 0) this.listeners.delete(eventName)
DropIfEmpty(ls, name) ==
  IF Len(ls[name].set) = 0 THEN [ls EXCEPT ![name] = [has |-> FALSE, set |-> <<>>]] ELSE ls

\* listeners.add({ fn, once }): a new object, told apart by id.
AddListener(ls, name, fn, once, id) ==
  [GetListeners(ls, name) EXCEPT
     ![name].set = Append(@, [fn |-> fn, once |-> once, id |-> id])]

On(name, fn) ==
  /\ constructed
  /\ stack = <<>>
  /\ registrations < MaxListeners
  /\ registrations' = registrations + 1
  /\ listeners' = AddListener(listeners, name, fn, FALSE, registrations + 1)
  /\ UNCHANGED <<constructed, futureVars, iterVars, eventHistory, invocations, emitCalls, stack>>

Once(name, fn) ==
  /\ constructed
  /\ stack = <<>>
  /\ registrations < MaxListeners
  /\ registrations' = registrations + 1
  /\ listeners' = AddListener(listeners, name, fn, TRUE, registrations + 1)
  /\ UNCHANGED <<constructed, futureVars, iterVars, eventHistory, invocations, emitCalls, stack>>

\* off() that deletes the first matching record only.
OffFirstOnly(name, fn) ==
  /\ constructed
  /\ stack = <<>>
  /\ LET set == listeners[name].set
         first == IF \E i \in 1..Len(set) : set[i].fn = fn
                  THEN CHOOSE i \in 1..Len(set) :
                         set[i].fn = fn /\ \A j \in 1..(i - 1) : set[j].fn # fn
                  ELSE 0
         kept == SelectSeq(set, LAMBDA l : first = 0 \/ l.id # set[first].id)
     IN listeners' = DropIfEmpty([GetListeners(listeners, name) EXCEPT ![name].set = kept], name)
  /\ UNCHANGED <<constructed, futureVars, iterVars, eventHistory, registrations,
                 invocations, emitCalls, stack>>

\* off(eventName, fn) called while no emit() is dispatching.
Off(name, fn) ==
  /\ constructed
  /\ stack = <<>>
  /\ LET kept == SelectSeq(listeners[name].set, LAMBDA l : l.fn # fn)
     IN listeners' = DropIfEmpty([GetListeners(listeners, name) EXCEPT ![name].set = kept], name)
  /\ UNCHANGED <<constructed, futureVars, iterVars, eventHistory, registrations,
                 invocations, emitCalls, stack>>

\* ---------------------------------------------------------------- iterators
\* iterator.push(value) that never hands the value to a waiting next().
PushCallDropped(nc, t, ev) == nc

\* iterator.push(value)
PushQueue(t, ev) == IF resolveNext[t] # 0 THEN queue[t] ELSE Append(queue[t], ev)

PushCall(nc, t, ev) == ResolveInner(nc, t, resolveNext[t], EventResult(ev))

\* for (const iterator of this.iterators) iterator.push(eventData)
PushAll(ev) ==
  /\ queue' = [t \in Slots |-> IF t \in iterators THEN PushQueue(t, ev) ELSE queue[t]]
  /\ nextCalls' = [t \in Slots |->
                     IF t \in iterators THEN PushCall(nextCalls, t, ev)[t]
                     ELSE nextCalls[t]]
  /\ resolveNext' = [t \in Slots |-> IF t \in iterators THEN 0 ELSE resolveNext[t]]

\* What calling listener function fn does.
Behaviour(fn) ==
  CASE fn \in AsyncFns -> "async"
    [] fn \in ThrowingFns -> "throw"
    [] fn \in EmittingFns -> "emit"
    [] OTHER -> "return"

\* The records of a Set.
Records(set) == {set[i] : i \in 1..Len(set)}

\* fn(data) or fn(): one call of the function of record l by emit() call c.
Invocation(l, ev, c, result) ==
  [fn |-> l.fn, args |-> Tail(ev), id |-> l.id, once |-> l.once, emit |-> c, result |-> result]

\* emit(eventName, data?) from its call to its return value, with listeners
\* that return at once: every step of the dispatch loop in one.
Emit(args) ==
  /\ constructed
  /\ stack = <<>>
  /\ Len(eventHistory) < MaxEmit
  /\ \A i \in 1..Len(listeners[args[1]].set) :
        Behaviour(listeners[args[1]].set[i].fn) = "return"
  /\ LET ev == EventData(args)
         name == args[1]
         set == listeners[name].set
         c == Len(eventHistory) + 1
     IN /\ eventHistory' = Append(eventHistory, ev)
        /\ PushAll(ev)
        /\ invocations' = invocations \o
                             [i \in 1..Len(set) |-> Invocation(set[i], ev, c, "returned")]
        /\ emitCalls' = Append(emitCalls, [name |-> name, atDispatch |-> Records(set)])
        /\ listeners' = DropIfEmpty(
                          [GetListeners(listeners, name) EXCEPT
                             ![name].set = SelectSeq(set, LAMBDA l : ~l.once)], name)
  /\ UNCHANGED <<constructed, futureVars, iterators, created, returned, registrations, stack>>

\* ------------------------------------------------------- emit(), step by step
\* The same function with listeners of every behaviour: its synchronous part
\* runs as a frame on the stack, one step per listener call, so that a
\* listener can call emit() again before the loop goes on.
NoListener == [fn |-> "none", once |-> FALSE, id |-> 0]

\* The local variables of a running emit(): the Set iterator has passed the
\* records up to id last, cur is the record whose function is running, and
\* detached says that the Set the call holds is no longer in the map.
Frame(c, args) ==
  [call |-> c, args |-> args, last |-> 0, cur |-> NoListener, detached |-> FALSE]

Top == stack[Len(stack)]

Pop(st) == SubSeq(st, 1, Len(st) - 1)

\* The Set the frame's local `listeners` refers to: the one in the map, or
\* a Set dropped from the map (dropped only when empty, and never added to).
FrameSet(ls, fr) == IF fr.detached THEN <<>> ELSE ls[fr.args[1]].set

\* A loop that steps over the record that follows the one it has just called.
RemainingSkipping(ls, fr) ==
  SelectSeq(FrameSet(ls, fr), LAMBDA l : IF fr.last = 0 THEN TRUE ELSE l.id > fr.last + 1)

\* for (const listener of listeners): what the Set iterator still yields.
\* Records are kept in insertion order and ids grow with insertion, so a
\* record deleted meanwhile is skipped and one added meanwhile is visited.
Remaining(ls, fr) == SelectSeq(FrameSet(ls, fr), LAMBDA l : l.id > fr.last)

\* listeners.delete(listener) on the Set of frame fr.
DeleteListener(ls, fr, l) ==
  IF fr.detached THEN ls
  ELSE [ls EXCEPT ![fr.args[1]].set = SelectSeq(@, LAMBDA r : r.id # l.id)]

\* if (listeners.size === 0) this.listeners.delete(eventName): the size is
\* that of the Set the frame holds, the key deleted is the one in the map.
DropAfterDispatch(ls, fr) ==
  IF Len(FrameSet(ls, fr)) = 0
  THEN [ls EXCEPT ![fr.args[1]] = [has |-> FALSE, set |-> <<>>]]
  ELSE ls

\* The frames whose Set has left the map hold a Set of their own from then on.
Detached(st, ls) ==
  [i \in DOMAIN st |->
     IF ls[st[i].args[1]].has THEN st[i] ELSE [st[i] EXCEPT !.detached = TRUE]]

\* The listener function of record l calls emit() when it runs.
Reemits(l) ==
  /\ Behaviour(l.fn) = "emit"
  /\ \A k \in DOMAIN invocations : invocations[k].fn # l.fn

\* The listener function of record l calls off() and on() when it runs.
Swaps(l) == l.fn \in SwappingFns

\* off(eventName, fn) on the map ls: getListeners, delete every match, drop
\* the key when the Set is empty.
OffListeners(ls, name, fn) ==
  DropIfEmpty([GetListeners(ls, name) EXCEPT
                 ![name].set = SelectSeq(@, LAMBDA r : r.fn # fn)], name)

\* The result of calling the function of record l, as the loop sees it.
CallResult(l) ==
  CASE Behaviour(l.fn) = "async" -> "pending"
    [] Behaviour(l.fn) = "throw" -> "threw"
    [] OTHER -> "returned"

\* The synchronous start of emit(): history, iterators, getListeners.
BeginEmit(args, st, ls) ==
  LET ev == EventData(args)
      name == args[1]
  IN /\ eventHistory' = Append(eventHistory, ev)
     /\ PushAll(ev)
     /\ listeners' = GetListeners(ls, name)
     /\ emitCalls' = Append(emitCalls, [name |-> name, atDispatch |-> Records(ls[name].set)])
     /\ stack' = Append(st, Frame(Len(eventHistory) + 1, args))

\* emit(eventName, data?) called while nothing is dispatching.
EmitCall(args) ==
  /\ constructed
  /\ stack = <<>>
  /\ Len(eventHistory) < MaxEmit
  /\ BeginEmit(args, stack, listeners)
  /\ UNCHANGED <<constructed, futureVars, iterators, created, returned,
                 registrations, invocations>>

\* A loop turn that passes the record without calling its function.
InvokeUncalled ==
  /\ stack # <<>>
  /\ Top.cur = NoListener
  /\ Remaining(listeners, Top) # <<>>
  /\ LET l == Head(Remaining(listeners, Top))
     IN /\ ~Reemits(l)
        /\ ~Swaps(l)
        /\ stack' = [stack EXCEPT ![Len(stack)].last = l.id]
        /\ listeners' = IF l.once THEN DeleteListener(listeners, Top, l) ELSE listeners
  /\ UNCHANGED <<constructed, futureVars, iterVars, eventHistory, registrations,
                 invocations, emitCalls>>

\* One turn of the loop with a listener that does not call emit():
\* listener.fn(data) or listener.fn(), promises.push, listeners.delete if once.
\* A throw leaves the loop and the function: the frame is gone, nothing else ran.
Invoke ==
  /\ stack # <<>>
  /\ Top.cur = NoListener
  /\ Remaining(listeners, Top) # <<>>
  /\ LET l == Head(Remaining(listeners, Top))
         ev == EventData(Top.args)
     IN /\ ~Reemits(l)
        /\ ~Swaps(l)
        /\ invocations' = Append(invocations, Invocation(l, ev, Top.call, CallResult(l)))
        /\ IF CallResult(l) = "threw"
           THEN /\ stack' = Pop(stack)
                /\ UNCHANGED listeners
           ELSE /\ stack' = [stack EXCEPT ![Len(stack)].last = l.id]
                /\ listeners' = IF l.once THEN DeleteListener(listeners, Top, l)
                                ELSE listeners
  /\ UNCHANGED <<constructed, futureVars, iterVars, eventHistory, registrations, emitCalls>>

\* listener.fn(...) where the function calls off(eventName, itself) and then
\* on(eventName, f) before it returns; then promises.push, listeners.delete
\* if once.  A Set that off() empties leaves the map while the loop holds it.
InvokeSwapping ==
  /\ stack # <<>>
  /\ Top.cur = NoListener
  /\ Remaining(listeners, Top) # <<>>
  /\ registrations < MaxListeners
  /\ LET l == Head(Remaining(listeners, Top))
         ev == EventData(Top.args)
         name == Top.args[1]
         afterOff == OffListeners(listeners, name, l.fn)
         held == Detached(stack, afterOff)
         afterOn == AddListener(afterOff, name, "f", FALSE, registrations + 1)
     IN /\ Swaps(l)
        /\ invocations' = Append(invocations, Invocation(l, ev, Top.call, "returned"))
        /\ registrations' = registrations + 1
        /\ listeners' = IF l.once THEN DeleteListener(afterOn, held[Len(held)], l)
                        ELSE afterOn
        /\ stack' = [held EXCEPT ![Len(held)].last = l.id]
  /\ UNCHANGED <<constructed, futureVars, iterVars, eventHistory, emitCalls>>

\* listener.fn(...) where the function calls emit() for its own event before
\* it returns: the inner call starts while the outer loop is inside the call.
InvokeReentrant ==
  /\ stack # <<>>
  /\ Top.cur = NoListener
  /\ Remaining(listeners, Top) # <<>>
  /\ Len(eventHistory) < MaxEmit
  /\ LET l == Head(Remaining(listeners, Top))
         ev == EventData(Top.args)
     IN /\ Reemits(l)
        /\ invocations' = Append(invocations, Invocation(l, ev, Top.call, "returned"))
        /\ BeginEmit(Top.args, [stack EXCEPT ![Len(stack)].cur = l], listeners)
  /\ UNCHANGED <<constructed, futureVars, iterators, created, returned, registrations>>

\* The listener function that called emit() has returned: promises.push,
\* listeners.delete if once, and the loop goes on after the record.
AfterInvoke ==
  /\ stack # <<>>
  /\ Top.cur # NoListener
  /\ stack' = [stack EXCEPT ![Len(stack)].last = Top.cur.id,
                            ![Len(stack)].cur = NoListener]
  /\ listeners' = IF Top.cur.once THEN DeleteListener(listeners, Top, Top.cur)
                  ELSE listeners
  /\ UNCHANGED <<constructed, futureVars, iterVars, eventHistory, registrations,
                 invocations, emitCalls>>

\* The loop is over: the empty Set is dropped and the call goes on to
\* await Promise.all(promises), which ends its synchronous part.
EmitAwait ==
  /\ stack # <<>>
  /\ Top.cur = NoListener
  /\ Remaining(listeners, Top) = <<>>
  /\ listeners' = DropAfterDispatch(listeners, Top)
  /\ stack' = Detached(Pop(stack), DropAfterDispatch(listeners, Top))
  /\ UNCHANGED <<constructed, futureVars, iterVars, eventHistory, registrations,
                 invocations, emitCalls>>

\* The promise an async listener returned settles, in a later turn.
HandlerSettles(k, ok) ==
  /\ stack = <<>>
  /\ k \in DOMAIN invocations
  /\ invocations[k].result = "pending"
  /\ invocations' = [invocations EXCEPT ![k].result = IF ok THEN "fulfilled" ELSE "rejected"]
  /\ UNCHANGED <<constructed, futureVars, iterVars, eventHistory, listeners,
                 registrations, emitCalls, stack>>

\* The calls emit() call c has made.
InvocationsOf(c) == SelectSeq(invocations, LAMBDA v : v.emit = c)

HasResult(c, r) == \E k \in DOMAIN invocations : invocations[k].emit = c /\ invocations[k].result = r

Running(c) == \E i \in DOMAIN stack : stack[i].call = c

\* An emit() that does not wait for the promises of its listeners.
EmitResultNoWait(c) ==
  CASE HasResult(c, "threw") -> "rejected"
    [] ~HasResult(c, "threw") /\ Running(c) -> "running"
    [] OTHER -> IF Len(InvocationsOf(c)) > 0 THEN "true" ELSE "false"

\* The promise emit() call c returned: rejected by a throw in the loop,
\* otherwise settled by await Promise.all(promises), which rejects with the
\* first rejection and fulfils when every promise has, and then
\* return promises.length > 0.
EmitResult(c) ==
  CASE HasResult(c, "threw") -> "rejected"
    [] ~HasResult(c, "threw") /\ Running(c) -> "running"
    [] ~HasResult(c, "threw") /\ ~Running(c) /\ HasResult(c, "rejected") -> "rejected"
    [] ~HasResult(c, "threw") /\ ~Running(c) /\ ~HasResult(c, "rejected")
         /\ HasResult(c, "pending") -> "pending"
    [] OTHER -> IF Len(InvocationsOf(c)) > 0 THEN "true" ELSE "false"

\* [Symbol.asyncIterator]() that starts from an empty queue: no replay.
IterateNoReplay(t) ==
  /\ constructed
  /\ stack = <<>>
  /\ t \notin created
  /\ t = Cardinality(created) + 1
  /\ created' = created \cup {t}
  /\ iterators' = iterators \cup {t}
  /\ queue' = [queue EXCEPT ![t] = <<>>]
  /\ resolveNext' = [resolveNext EXCEPT ![t] = 0]
  /\ UNCHANGED <<constructed, futureVars, listenerVars, eventHistory, returned, nextCalls>>

\* [Symbol.asyncIterator](): a new iterator whose queue is a copy of the history.
Iterate(t) ==
  /\ constructed
  /\ stack = <<>>
  /\ t \notin created
  /\ t = Cardinality(created) + 1
  /\ created' = created \cup {t}
  /\ iterators' = iterators \cup {t}
  /\ queue' = [queue EXCEPT ![t] = eventHistory]
  /\ resolveNext' = [resolveNext EXCEPT ![t] = 0]
  /\ UNCHANGED <<constructed, futureVars, listenerVars, eventHistory, returned, nextCalls>>

\* next() that waits for the next event without looking at the queue.
NextAlwaysWaits(t) ==
  /\ t \in created
  /\ Len(nextCalls[t]) < MaxNext
  /\ nextCalls' = [nextCalls EXCEPT ![t] =
         Append(@, IF endState.resolved THEN DoneResult(endState.value) ELSE PendingResult)]
  /\ resolveNext' = [resolveNext EXCEPT ![t] = Len(nextCalls[t]) + 1]
  /\ UNCHANGED <<constructed, futureVars, listenerVars, iterators, eventHistory,
                 created, returned, queue>>

\* next() of an iterator whose queue is the history itself, not a copy.
NextFromHistory(t) ==
  /\ t \in created
  /\ Len(nextCalls[t]) < MaxNext
  /\ IF Len(queue[t]) > 0
     THEN /\ queue' = [queue EXCEPT ![t] = Tail(@)]
          /\ nextCalls' = [nextCalls EXCEPT ![t] = Append(@, EventResult(Head(queue[t])))]
          /\ UNCHANGED resolveNext
     ELSE /\ nextCalls' = [nextCalls EXCEPT ![t] =
                 Append(@, IF endState.resolved THEN DoneResult(endState.value)
                           ELSE PendingResult)]
          /\ resolveNext' = [resolveNext EXCEPT ![t] = Len(nextCalls[t]) + 1]
          /\ UNCHANGED queue
  /\ eventHistory' = IF Len(queue[t]) > 0 /\ Len(eventHistory) > 0 THEN Tail(eventHistory)
                    ELSE eventHistory
  /\ UNCHANGED <<constructed, futureVars, listenerVars, iterators, created, returned>>

\* next(): the head of the queue, or the race of endPromise against a new
\* promise whose resolver becomes resolveNext.
Next_(t) ==
  /\ t \in created
  /\ Len(nextCalls[t]) < MaxNext
  /\ IF Len(queue[t]) > 0
     THEN /\ queue' = [queue EXCEPT ![t] = Tail(@)]
          /\ nextCalls' = [nextCalls EXCEPT ![t] = Append(@, EventResult(Head(queue[t])))]
          /\ UNCHANGED resolveNext
     ELSE /\ nextCalls' = [nextCalls EXCEPT ![t] =
                 Append(@, IF endState.resolved THEN DoneResult(endState.value)
                           ELSE PendingResult)]
          /\ resolveNext' = [resolveNext EXCEPT ![t] = Len(nextCalls[t]) + 1]
          /\ UNCHANGED queue
  /\ UNCHANGED <<constructed, futureVars, listenerVars, iterators, eventHistory,
                 created, returned>>

\* return(value?): v = Undefined stands for a call without a value.
Return(t, v) ==
  /\ t \in created
  /\ stack = <<>>
  /\ iterators' = iterators \ {t}
  /\ returned' = returned \cup {t}
  /\ resolveNext' = [resolveNext EXCEPT ![t] = 0]
  /\ LET afterDone == ResolveInner(nextCalls, t, resolveNext[t], DoneResult(v))
         ends == v # Undefined /\ ~isDone
     IN /\ endState' = IF ends THEN EndResolver(endState, v, "return") ELSE endState
        /\ nextCalls' = IF ends /\ ~endState.resolved THEN RaceEnd(afterDone, v)
                        ELSE afterDone
  /\ UNCHANGED <<constructed, promiseState, promiseResult, isDone, value,
                 listenerVars, eventHistory, created, queue>>

\* What the promise returned by return() resolves to: return this.endPromise.
ReturnResult == IF endState.resolved THEN DoneResult(endState.value) ELSE PendingResult

\* What `await pv` gives: the state and result of the promise itself.
Awaited == <<promiseState, promiseResult>>

\* ---------------------------------------------------------------- specifications
\* next() call k of iterator t has not returned yet.
Unsettled(t, k) == k \in DOMAIN nextCalls[t] /\ ~nextCalls[t][k].settled

\* A consumer that awaits every next() before it calls next() again, as a
\* for-await loop does.
Awaiting(t) == \E k \in DOMAIN nextCalls[t] : Unsettled(t, k)

\* next() called by a consumer that has no next() outstanding.
AwaitedNext(t) ==
  /\ stack = <<>>
  /\ ~Awaiting(t)
  /\ Next_(t)

\* The future and the iterator protocol, with consumers that call next()
\* one call at a time; no listener is registered.
Next ==
  \/ \E exec \in SyncExecutor : Constructor(exec)
  \/ \E v \in ResolveValues : Settle(v)
  \/ \E e \in Errors : Fail(e)
  \/ \E a \in EmitArgs : Emit(a)
  \/ \E t \in Iters : Iterate(t)
  \/ \E t \in Iters : AwaitedNext(t)
  \/ \E t \in Iters, v \in CloseValues \cup {Undefined} : Return(t, v)

Spec == Init /\ [][Next]_vars

\* The dispatcher next to one iterator: listeners are registered and removed.
NextDispatch ==
  \/ \E exec \in SyncExecutor : Constructor(exec)
  \/ \E v \in ResolveValues : Settle(v)
  \/ \E e \in Errors : Fail(e)
  \/ \E n \in EventNames, f \in {"f"} : On(n, f)
  \/ \E n \in EventNames, f \in {"f"} : Once(n, f)
  \/ \E n \in EventNames, f \in {"f"} : Off(n, f)
  \/ \E a \in EmitArgs : Emit(a)
  \/ Iterate(1)
  \/ AwaitedNext(1)
  \/ \E v \in CloseValues \cup {Undefined} : Return(1, v)

SpecDispatch == Init /\ [][NextDispatch]_vars

\* The listeners at work: functions that return, throw or go on in a later
\* turn are registered, and emit() runs step by step.
HandlerFns == {"f"} \cup AsyncFns \cup ThrowingFns

NextHandlers ==
  \/ Constructor(<<"none">>)
  \/ \E n \in EventNames, f \in HandlerFns : On(n, f)
  \/ \E n \in EventNames, f \in HandlerFns : Once(n, f)
  \/ \E a \in EmitArgs : EmitCall(a)
  \/ Invoke
  \/ EmitAwait
  \/ \E k \in 1..(MaxEmit * MaxListeners), ok \in BOOLEAN : HandlerSettles(k, ok)

SpecHandlers == Init /\ [][NextHandlers]_vars

\* Listeners that call emit() themselves, next to ones that return or throw.
ReentrantFns == {"f"} \cup ThrowingFns \cup EmittingFns

NextReentrant ==
  \/ Constructor(<<"none">>)
  \/ \E n \in EventNames, f \in ReentrantFns : On(n, f)
  \/ \E n \in EventNames, f \in ReentrantFns : Once(n, f)
  \/ \E a \in EmitArgs : EmitCall(a)
  \/ Invoke
  \/ InvokeReentrant
  \/ AfterInvoke
  \/ EmitAwait

SpecReentrant == Init /\ [][NextReentrant]_vars

\* Registration and removal between emissions whose listeners return at once.
NextListeners ==
  \/ Constructor(<<"none">>)
  \/ \E n \in EventNames, f \in Fns : On(n, f)
  \/ \E n \in EventNames, f \in Fns : Once(n, f)
  \/ \E n \in EventNames, f \in Fns : Off(n, f)
  \/ \E a \in EmitArgs : Emit(a)

SpecListeners == Init /\ [][NextListeners]_vars

\* The listeners next to one consumer: emit() runs step by step while an
\* iterator pulls and the future may resolve.
DeliveryFns == {"f"} \cup AsyncFns \cup ThrowingFns \cup EmittingFns

NextDelivery ==
  \/ Constructor(<<"none">>)
  \/ \E v \in ResolveValues : Settle(v)
  \/ \E n \in EventNames, f \in DeliveryFns : On(n, f)
  \/ \E n \in EventNames, f \in DeliveryFns : Once(n, f)
  \/ \E a \in EmitArgs : EmitCall(a)
  \/ Invoke
  \/ InvokeReentrant
  \/ AfterInvoke
  \/ EmitAwait
  \/ \E k \in 1..(MaxEmit * MaxListeners), ok \in BOOLEAN : HandlerSettles(k, ok)
  \/ Iterate(1)
  \/ AwaitedNext(1)

SpecDelivery == Init /\ [][NextDelivery]_vars

\* A consumer pulling while the listeners of progress are called: functions
\* that return, throw or emit again.
NextObserve ==
  \/ Constructor(<<"none">>)
  \/ \E f \in ReentrantFns : On("progress", f)
  \/ \E f \in ReentrantFns : Once("progress", f)
  \/ \E a \in EmitArgs : EmitCall(a)
  \/ Invoke
  \/ InvokeReentrant
  \/ AfterInvoke
  \/ EmitAwait
  \/ Iterate(1)
  \/ AwaitedNext(1)

SpecObserve == Init /\ [][NextObserve]_vars

\* Consumers that call next() again before the last call has settled.
NextOverlap ==
  \/ Constructor(<<"none">>)
  \/ \E v \in ResolveValues : Settle(v)
  \/ \E a \in EmitArgs : Emit(a)
  \/ \E t \in Iters : Iterate(t)
  \/ \E t \in Iters : Next_(t)
  \/ \E t \in Iters, v \in CloseValues \cup {Undefined} : Return(t, v)

SpecOverlap == Init /\ [][NextOverlap]_vars

\* Every operation, with a second iterator next to the first.
NextFrame ==
  \/ Constructor(<<"none">>)
  \/ \E v \in ResolveValues : Settle(v)
  \/ \E e \in Errors : Fail(e)
  \/ On("progress", "f")
  \/ Once("progress", "f")
  \/ Off("progress", "f")
  \/ \E a \in EmitArgs : Emit(a)
  \/ \E t \in Slots : Iterate(t)
  \/ \E t \in Slots : AwaitedNext(t)
  \/ \E t \in Slots : Return(t, Undefined)

SpecFrame == Init /\ [][NextFrame]_vars

\* Listeners that unregister themselves and register another in a dispatch.
SwapFns == {"f"} \cup SwappingFns

NextSwap ==
  \/ Constructor(<<"none">>)
  \/ \E n \in EventNames, f \in SwapFns : On(n, f)
  \/ \E n \in EventNames, f \in SwapFns : Once(n, f)
  \/ \E a \in EmitArgs : EmitCall(a)
  \/ Invoke
  \/ InvokeSwapping
  \/ EmitAwait

SpecSwap == Init /\ [][NextSwap]_vars

\* ---------------------------------------------------------------- properties
\* The event records iterator t has got from next(), in call order.
EventsOf(t) ==
  LET got == SelectSeq(nextCalls[t], LAMBDA r : r.settled /\ ~r.done)
  IN [i \in 1..Len(got) |-> got[i].value]

IsPrefix(a, b) == Len(a) <= Len(b) /\ \A i \in 1..Len(a) : a[i] = b[i]

\* Some next() call of iterator t has returned {done: true}.
HasDone(t) == \E k \in DOMAIN nextCalls[t] : nextCalls[t][k].done

LastCall(nc, t) == nc[t][Len(nc[t])]

IsEvent(r) == r.settled /\ ~r.done

Progress50 == <<"progress", 50>>
Complete == <<"complete">>

\* C1: an iterator that is not closed yields the history in emission order,
\* the events emitted before it was created first (its queue starts as the
\* whole history, also when the future has resolved already), then the later
\* ones; when it gets its first terminal result it has yielded every event
\* emitted so far, and a terminal result produced by the producer's resolve
\* carries the value the future resolved with.
C1_ReplayLiveThenDone ==
  /\ [](\A t \in created \ returned :
          /\ ~HasDone(t) => EventsOf(t) \o queue[t] = eventHistory
          /\ \A k \in DOMAIN nextCalls[t] :
               (nextCalls[t][k].done /\ promiseState = "fulfilled" /\ endState.by = "resolve")
                 => nextCalls[t][k].end = promiseResult)
  /\ [][\A t \in created' \ returned' :
          (~HasDone(t) /\ HasDone(t)') => EventsOf(t)' = eventHistory']_vars

C1_Witness ==
  \E t \in created \ returned :
    /\ nextCalls[t] = <<EventResult(Progress50), EventResult(Complete), DoneResult("done")>>
    /\ eventHistory = <<Progress50, Complete>>
    /\ promiseState = "fulfilled" /\ promiseResult = "done"

\* C2: under any interleaving the event records an iterator has got from
\* next() are a prefix of the history log (no reordering, gap or duplicate).
C2_PrefixOfHistory == \A t \in created : IsPrefix(EventsOf(t), eventHistory)

\* C3: return(v) with a value while the future is pending resolves the future
\* with v and sets isDone.
C3_CloseResolvesFuture ==
  [][\A t \in Iters, v \in CloseValues :
       (promiseState = "pending" /\ Return(t, v))
         => (promiseState' = "fulfilled" /\ promiseResult' = v /\ isDone')]_vars

\* C4: an emit after the future has settled is appended to the history, calls
\* the registered listeners and reaches every registered iterator: it is put
\* on the iterator's queue or handed to its waiting next().
C4_EmitAfterSettle ==
  [][\A a \in EmitArgs :
       (promiseState # "pending" /\ Emit(a)) =>
         /\ eventHistory' = Append(eventHistory, EventData(a))
         /\ Len(invocations') = Len(invocations) + Len(listeners[a[1]].set)
         /\ \A t \in iterators :
              \/ queue'[t] = Append(queue[t], EventData(a))
              \/ \E k \in DOMAIN nextCalls[t] :
                   Unsettled(t, k) /\ nextCalls'[t][k] = EventResult(EventData(a))]_vars

\* C5: once the producer has called reject(e) the awaiters see e and no next()
\* call stays suspended.
C5_FailUnblocks ==
  (promiseState = "rejected" /\ promiseResult \in Errors) =>
    \A t \in created : ~Awaiting(t)

\* C6: after the first resolve or reject has taken effect, a later resolve or
\* reject changes nothing: not the awaited outcome, isDone, value, endPromise
\* or the result of any next() call.
C6_SettlesOnce ==
  [][(/\ promiseState # "pending"
      /\ promiseResult # ReferenceError
      /\ \/ \E v \in ResolveValues : Settle(v)
         \/ \E e \in Errors : Fail(e))
       => UNCHANGED <<promiseState, promiseResult, isDone, value, endState, nextCalls>>]_vars

\* C7: an executor that calls resolve(v) while the constructor runs leaves the
\* object fulfilled with v, isDone true and value v.
C7_SyncResolve ==
  [][\A v \in ResolveValues :
       Constructor(<<"resolve", v>>)
         => (promiseState' = "fulfilled" /\ promiseResult' = v /\ isDone' /\ value' = v)]_vars

\* C8: an emit hands its event record to every registered iterator whose
\* next() is waiting, a result a next() call has got is never replaced (so a
\* resolve right after the emit does not turn it into the terminal result),
\* and the terminal result comes from the following next(): with the queue
\* empty and endPromise resolved it returns {done: true} at once, carrying
\* the resolved value when the producer's resolve ended the iteration.
C8_EventBeforeDone ==
  [][/\ \A a \in EmitArgs : Emit(a) =>
          \A t \in iterators : \A k \in DOMAIN nextCalls[t] :
             (resolveNext[t] = k /\ Unsettled(t, k))
               => nextCalls'[t][k] = EventResult(EventData(a))
     /\ \A t \in created : \A k \in DOMAIN nextCalls[t] :
          nextCalls[t][k].settled => nextCalls'[t][k] = nextCalls[t][k]
     /\ \A t \in created :
          (Next_(t) /\ queue[t] = <<>> /\ endState.resolved)
            => /\ LastCall(nextCalls', t) = DoneResult(endState.value)
               /\ (promiseState = "fulfilled" /\ endState.by = "resolve")
                    => LastCall(nextCalls', t).end = promiseResult]_vars

C8_Witness ==
  /\ created = Iters /\ returned = {}
  /\ \A t \in Iters :
       /\ nextCalls[t] = <<EventResult(Progress50), EventResult(Complete), DoneResult("done")>>
       /\ resolveNext[t] = 3
       /\ queue[t] = <<>>
  /\ isDone /\ value = "done"

\* C9: a terminal result of next() carries the value the future resolved with.
C9_DoneCarriesResolvedValue ==
  \A t \in created : \A k \in DOMAIN nextCalls[t] :
    (nextCalls[t][k].done /\ promiseState = "fulfilled")
      => nextCalls[t][k].end = promiseResult

\* C10: after return() no emit reaches the iterator and next() never returns
\* an event record.
C10_ClosedIsTerminal ==
  [][\A t \in returned :
       /\ (\E a \in EmitArgs : Emit(a)) => (queue'[t] = queue[t] /\ nextCalls'[t] = nextCalls[t])
       /\ Next_(t) => ~IsEvent(LastCall(nextCalls', t))]_vars

\* ------------------------------------------------- properties of the listeners
\* Emission c called the function of record l.
InvokedIn(c, l) ==
  \E k \in DOMAIN invocations : invocations[k].emit = c /\ invocations[k].id = l.id

\* The number of calls made to the function of the record with this id.
TimesInvoked(id) == Cardinality({k \in DOMAIN invocations : invocations[k].id = id})

\* The first emit() call that found record l registered.
FirstEmission(c, l) ==
  /\ l \in emitCalls[c].atDispatch
  /\ \A b \in 1..(c - 1) : l \notin emitCalls[b].atDispatch

\* C11: a listener registered with once(name, cb) is called exactly once over
\* the emissions of name that follow: by the first of them, with that
\* emission's payload, and by no later one.  (An emission that a throw has
\* cut short before it came to the listener is left out of the first part.)
C11_OnceExactlyOnce ==
  /\ \A k \in DOMAIN invocations : invocations[k].once => TimesInvoked(invocations[k].id) = 1
  /\ \A c \in DOMAIN emitCalls : \A l \in emitCalls[c].atDispatch :
        (l.once /\ FirstEmission(c, l) /\ ~Running(c) /\ ~HasResult(c, "threw"))
          => \E k \in DOMAIN invocations :
               /\ invocations[k].id = l.id
               /\ invocations[k].emit = c
               /\ invocations[k].args = Tail(eventHistory[c])

\* C12: a single-fire listener is removed as soon as its call is issued, so
\* while its function runs, an emit() of the same name made by the function
\* included, it is no longer registered and it has been called once.
C12_RemovedBeforeReentry ==
  \A i \in DOMAIN stack :
    stack[i].cur.once
      => /\ stack[i].cur \notin Records(listeners[stack[i].args[1]].set)
         /\ TimesInvoked(stack[i].cur.id) = 1

\* The functions of the records of a Set, in order.
FnsOf(set) == [i \in 1..Len(set) |-> set[i].fn]

\* C13: off(name, cb) leaves no record of cb under name, however many times
\* cb was registered there, and keeps the records of the other callbacks and
\* of the other names as they were; an emission calls registered records
\* only, so no later emission of name calls cb.
C13_OffRemovesAll ==
  /\ [][\A n \in EventNames, f \in Fns :
         Off(n, f) =>
           /\ \A l \in Records(listeners'[n].set) : l.fn # f
           /\ listeners'[n].set = SelectSeq(listeners[n].set, LAMBDA l : l.fn # f)
           /\ \A m \in EventNames \ {n} : listeners'[m].set = listeners[m].set]_vars
  /\ [][\A a \in EmitArgs :
         Emit(a) =>
           \A k \in (DOMAIN invocations') \ (DOMAIN invocations) :
             \E l \in Records(listeners[a[1]].set) :
               l.id = invocations'[k].id /\ l.fn = invocations'[k].fn]_vars

\* cb was registered twice for progress and called twice by the first
\* emission; after off() the second emission found nothing to call.
C13_Witness ==
  /\ Len(emitCalls) = 2
  /\ emitCalls[1].name = "progress" /\ emitCalls[2].name = "progress"
  /\ {l.fn : l \in emitCalls[1].atDispatch} = {"f"}
  /\ Cardinality(emitCalls[1].atDispatch) = 2
  /\ \A l \in emitCalls[1].atDispatch : ~l.once
  /\ emitCalls[2].atDispatch = {}
  /\ Len(invocations) = 2

\* The event of emit() call args has reached iterator t: it is at the end of
\* the queue or it is the result of the next() that was waiting.
Delivered(t, args) ==
  \/ queue'[t] = Append(queue[t], EventData(args))
  \/ \E k \in DOMAIN nextCalls[t] :
       Unsettled(t, k) /\ nextCalls'[t][k] = EventResult(EventData(args))

\* C14: emit() resolves to true exactly when a listener was registered for
\* the name when it dispatched; with no listener the event is still appended
\* to the history and delivered to every active iterator.
C14_EmitResult ==
  [][\A a \in EmitArgs :
       Emit(a) =>
         /\ (EmitResult(Len(eventHistory)))' =
              (IF Len(listeners[a[1]].set) > 0 THEN "true" ELSE "false")
         /\ Len(listeners[a[1]].set) = 0 =>
              /\ eventHistory' = Append(eventHistory, EventData(a))
              /\ \A t \in iterators : Delivered(t, a)]_vars

Settled(c) == EmitResult(c) \in {"true", "false", "rejected"}

\* C15: the promise emit() returned does not settle until the completions of
\* all the listeners called for the emission, async ones included, have
\* settled.
C15_Barrier ==
  \A c \in DOMAIN emitCalls : Settled(c) => ~HasResult(c, "pending")

\* C15, amended: the promise emit() returned is not fulfilled until every
\* listener called for the emission has returned and every promise a
\* listener returned has been fulfilled; it is rejected only by a listener
\* that threw or a promise that was rejected, and then without waiting for
\* the promises still pending; until one of the two it stays unsettled.
C15_FulfilBarrier ==
  \A c \in DOMAIN emitCalls :
    /\ EmitResult(c) \in {"true", "false"}
         => \A k \in DOMAIN invocations :
              invocations[k].emit = c => invocations[k].result \in {"returned", "fulfilled"}
    /\ EmitResult(c) = "rejected" => (HasResult(c, "threw") \/ HasResult(c, "rejected"))
    /\ (HasResult(c, "pending") /\ ~HasResult(c, "threw") /\ ~HasResult(c, "rejected"))
         => ~Settled(c)

\* An emission called a listener that returned at once and an async one, and
\* resolved to true after the promise of the async one was fulfilled.
C15_Witness ==
  \E c \in DOMAIN emitCalls :
    /\ EmitResult(c) = "true"
    /\ HasResult(c, "fulfilled")
    /\ HasResult(c, "returned")

\* Emission c fails: a listener it called has thrown or the promise of one
\* has been rejected.
Failed(c) == HasResult(c, "threw") \/ HasResult(c, "rejected")

\* What iterator t has received and what waits in its queue.
Seen(t) == EventsOf(t) \o queue[t]

\* C16: when a listener throws or the promise it returned is rejected, the
\* emit() that called it fails; the event is in the history all the same and
\* has been delivered to every active iterator, and the calls already made
\* stand.
C16_FailurePropagates ==
  [][\A c \in DOMAIN emitCalls :
       (~Failed(c) /\ Failed(c)') =>
         /\ (EmitResult(c))' = "rejected"
         /\ eventHistory'[c] = eventHistory[c]
         /\ \A t \in iterators' : \E i \in DOMAIN Seen(t)' : Seen(t)'[i] = eventHistory[c]
         /\ \A k \in DOMAIN invocations :
              /\ invocations'[k].id = invocations[k].id
              /\ invocations'[k].emit = invocations[k].emit
              /\ invocations'[k].result # invocations[k].result =>
                   (k \in DOMAIN invocations /\ invocations[k].result = "pending")]_vars

\* The ids of the records emission c has called, in call order.
CalledBy(c) == [i \in 1..Len(InvocationsOf(c)) |-> InvocationsOf(c)[i].id]

Ascending(ids) == \A i, j \in DOMAIN ids : i < j => ids[i] < ids[j]

\* Record l was called by an emission that started after emission c.
ConsumedLater(c, l) ==
  \E k \in DOMAIN invocations : invocations[k].id = l.id /\ invocations[k].emit > c

Returned(t, c) == \E i \in DOMAIN EventsOf(t) : EventsOf(t)[i] = eventHistory[c]

C18_QueueOrCallback ==
  \A t \in created : Len(queue[t]) > 0 => resolveNext[t] = 0

\* The first emission went to the waiting next(), the second to the queue.
C18_Witness ==
  \E t \in created \ returned :
    /\ Len(eventHistory) = 2
    /\ nextCalls[t] = <<EventResult(eventHistory[1])>>
    /\ queue[t] = <<eventHistory[2]>>
    /\ resolveNext[t] = 0

\* C19: the history only grows at its end: emit() appends one record, the
\* name alone or the name and the payload, and no other operation changes
\* it; a next() that takes a record from the queue of its iterator leaves
\* the history and the queue of every other iterator as they were.
C19_AppendOnly ==
  /\ [][\/ eventHistory' = eventHistory
        \/ \E a \in EmitArgs :
             /\ Emit(a)
             /\ eventHistory' = Append(eventHistory, IF Len(a) = 2 THEN <<a[1], a[2]>> ELSE <<a[1]>>)]_vars
  /\ [][\A a \in EmitArgs : Emit(a) => Len(eventHistory') = Len(eventHistory) + 1]_vars
  /\ [][\A t \in Slots :
         (Next_(t) /\ Len(queue[t]) > 0) =>
           /\ eventHistory' = eventHistory
           /\ \A u \in Slots \ {t} : queue'[u] = queue[u]]_vars

\* Two iterators were seeded with a history of two records; one has taken
\* its first record, the other still holds both.
C19_Witness ==
  /\ Len(eventHistory) = 2
  /\ \E t, u \in created :
       /\ t # u
       /\ nextCalls[t] = <<EventResult(eventHistory[1])>>
       /\ queue[t] = <<eventHistory[2]>>
       /\ nextCalls[u] = <<>>
       /\ queue[u] = eventHistory

\* The future has settled and iterator t has taken every queued record and
\* got a terminal result from next().
Finished(t) == promiseState # "pending" /\ HasDone(t) /\ Len(queue[t]) = 0

\* C21: an iterator leaves the set of active iterators not only through
\* return() but also once the future has settled and the iterator has
\* drained its queue and got the terminal result; from then on an emission
\* adds no record to its queue.
C21_RemovedWhenFinished ==
  /\ [](\A t \in created : Finished(t) => t \notin iterators)
  /\ [][\A t \in created : Finished(t) => Len(queue'[t]) <= Len(queue[t])]_vars

\* C22: a listener added with on() stays registered until off() is called
\* for it, whatever emit() does and whatever on() and off() calls listeners
\* make during a dispatch.  (off() is called for swap only, never for f.)
C22_PersistentStays ==
  [][\A n \in EventNames : \A l \in Records(listeners[n].set) :
       (~l.once /\ l.fn \in Fns) => l \in Records(listeners'[n].set)]_vars

\* C23: return() with no value while the future is pending completes with
\* the terminal result at once, without waiting for the future to settle.
C23_CloseCompletes ==
  [][\A t \in Iters :
       (promiseState = "pending" /\ Return(t, Undefined)) => ReturnResult'.settled]_vars

\* The next() calls of iterator t that have not settled, oldest first.
Suspended(t) == SelectSeq([k \in DOMAIN nextCalls[t] |-> k], LAMBDA k : Unsettled(t, k))

\* C24: when next() is called again while an earlier next() of the same
\* iterator is suspended, no call is orphaned: an emission resumes the
\* oldest suspended call with its record.
C24_NoOrphan ==
  [][\A a \in EmitArgs : \A t \in iterators :
       (Emit(a) /\ Suspended(t) # <<>>)
         => nextCalls'[t][Head(Suspended(t))] = EventResult(EventData(a))]_vars
====
